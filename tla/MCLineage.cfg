\* The repository's own tools, one session id started twice.
SPECIFICATION Spec
CONSTANTS
    Payloads = {"gaps"}
    Readings = {"supported", "conservative"}
    FaultySlices = {3}
    FaultKinds = {"failed", "raised"}
    MaxFaults = 1
    MaxStarts = 2
    MaxCrashes = 0
INVARIANTS
    VerdictJudgesItsOutput
CHECK_DEADLOCK FALSE
