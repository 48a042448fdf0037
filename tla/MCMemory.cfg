\* Two sessions, one exporter, one crash.
SPECIFICATION Spec
CONSTANTS
    s1 = s1
    s2 = s2
    x1 = x1
    Sessions = {s1, s2}
    Exporters = {x1}
    Readings = {"supported", "conservative"}
    Verdicts = {"pass", "unverified"}
    MaxAttempts = 2
    MaxExports = 1
    MaxCrashes = 1
SYMMETRY Interchangeable
INVARIANTS
    MemoryTypeOK
    MemorySpeaksForOneSession
    ResolvedGapStaysResolved
    HandoffBacksItsPhase
    GapsAreVerified
CHECK_DEADLOCK FALSE
