\* One operator with every command, crashes anywhere, a service that may restart.
SPECIFICATION Spec
CONSTANTS
    alice = alice
    bob = bob
    Operators = {alice}
    Commands = {"approve", "deny", "verify", "resume", "auto-safe", "manual"}
    StubPhases = {"action_stub_pending_approval", "action_stub_not_actionable", "action_stub_deferred"}
    StartModes = {"manual"}
    MaxCommands = 4
    MaxCrashes = 2
    MaxRestarts = 1
INVARIANTS
    TypeOK
    RequestFollowsApproval
    RollbackIsRecorded
    SucceededIsBacked
    PhaseMatchesApproval
    AtMostOneRollback
    UnfinishedWriteNotResumable
    TrustedCheckpointMatchesMarker
    SessionConsistent
PROPERTIES
    DecisionStands
    AutoApprovalUnderAutoSafe
    ModeWriteKeepsDecision
    ImplementsGate
CHECK_DEADLOCK FALSE
