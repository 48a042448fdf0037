\* A mode change racing an approval.
SPECIFICATION Spec
CONSTANTS
    alice = alice
    bob = bob
    Operators = {alice, bob}
    Commands = {"approve", "semi-auto"}
    StubPhases = {"action_stub_pending_approval"}
    StartModes = {"manual"}
    MaxCommands = 1
    MaxCrashes = 0
    MaxRestarts = 0
INVARIANTS
    UnfinishedWriteNotResumable
CHECK_DEADLOCK FALSE
