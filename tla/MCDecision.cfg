\* Any alert, any service, plugged-in tools that change a field of each output.
SPECIFICATION Spec
CONSTANTS
    AlertMetadata <- SomeAlerts
    Risks = {"read_only", "write", "dangerous"}
    Plugged <- OneOff
    MaxReplaced = 2
INVARIANTS
    DecisionTypeOK
    OwnToolsSatisfyVerifiers
    VerifiedStubFollowsEvidence
    TornReadIsConservative
    GateOpensOnlyForThisRelease
PROPERTIES
    DataImplementsPipeline
CHECK_DEADLOCK FALSE
