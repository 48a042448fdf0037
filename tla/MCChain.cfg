\* Every slice may fail in every way; one session id started twice, a crash anywhere.
SPECIFICATION Spec
CONSTANTS
    Payloads = {"gaps", "complete"}
    Readings = {"supported", "conservative"}
    FaultySlices = {1, 2, 3, 4, 5, 6}
    FaultKinds = {"failed", "raised", "wrong", "unjudged"}
    MaxFaults = 2
    MaxStarts = 2
    MaxCrashes = 1
INVARIANTS
    ChainTypeOK
    CandidateIsJustified
    CompatiblePhaseHasArtifact
    TrustedCheckpointIsMarked
    MemoryIsBacked
    StubLeavesStartState
    ChainConsistent
PROPERTIES
    ImplementsPipeline
CHECK_DEADLOCK FALSE
