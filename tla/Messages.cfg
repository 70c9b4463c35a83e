\* One copy at a time, two threads that flush, three readers, permissions fixed.
SPECIFICATION MessagesSpec
CONSTANTS
    m1 = m1
    m2 = m2
    Conns = {c1, c2}
    Flushers = {f1, f2}
    Readers = {r1, r2, r3}
    Abroad = {r1}
    Copies = {m1, m2}
    Batches <- OneCopyEach
    Remote = {m1}
    Ttl = 1
    LateHosts = FALSE
    Grantable = {"messages"}
    LanHorizon = 1
    MaxChanges = 0
INVARIANTS GivenOnce
PROPERTIES CopiesComeToRest
CHECK_DEADLOCK FALSE
