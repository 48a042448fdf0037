\* Two operators decide on one pending approval at the same time.
SPECIFICATION Spec
CONSTANTS
    alice = alice
    bob = bob
    Operators = {alice, bob}
    Commands = {"approve", "deny"}
    StubPhases = {"action_stub_pending_approval"}
    StartModes = {"manual"}
    MaxCommands = 1
    MaxCrashes = 0
    MaxRestarts = 0
SYMMETRY OperatorSymmetry
INVARIANTS
    HistoryBacked
    RequestsNeverOutnumberApprovals
    SucceededIsBacked
CHECK_DEADLOCK FALSE
