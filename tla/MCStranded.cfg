\* A crash between the approval's marker and the rollback.
SPECIFICATION Spec
CONSTANTS
    alice = alice
    bob = bob
    Operators = {alice}
    Commands = {"approve", "deny", "verify", "resume", "auto-safe"}
    StubPhases = {"action_stub_pending_approval"}
    StartModes = {"manual"}
    MaxCommands = 2
    MaxCrashes = 1
    MaxRestarts = 0
INVARIANTS
    NoStrandedApproval
CHECK_DEADLOCK FALSE
