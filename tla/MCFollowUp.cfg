\* One start; the follow-up's tool may report a failure.
SPECIFICATION FairSpec
CONSTANTS
    Payloads = {"gaps", "complete"}
    Readings = {"supported", "conservative"}
    FaultySlices = {2}
    FaultKinds = {"failed"}
    MaxFaults = 1
    MaxStarts = 1
    MaxCrashes = 0
PROPERTIES
    FollowUpCommitsOutcome
CHECK_DEADLOCK FALSE
