\* An approval and a denial of the same pending action.
SPECIFICATION Spec
CONSTANTS
    alice = alice
    bob = bob
    Operators = {alice, bob}
    Commands = {"approve", "deny"}
    StubPhases = {"action_stub_pending_approval"}
    StartModes = {"manual"}
    MaxCommands = 1
    MaxCrashes = 0
    MaxRestarts = 0
PROPERTIES
    DenialPreventsRollback
CHECK_DEADLOCK FALSE
