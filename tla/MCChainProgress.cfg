\* No crashes; tools and verifiers may still fail.
SPECIFICATION FairSpec
CONSTANTS
    Payloads = {"gaps", "complete"}
    Readings = {"supported", "conservative"}
    FaultySlices = {1, 2, 3, 4, 5, 6}
    FaultKinds = {"failed", "raised", "wrong", "unjudged"}
    MaxFaults = 2
    MaxStarts = 2
    MaxCrashes = 0
PROPERTIES
    FollowUpReachesStub
CHECK_DEADLOCK FALSE
