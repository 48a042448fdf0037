\* One operator that does not crash, under fairness of its commands.
SPECIFICATION FairSpec
CONSTANTS
    alice = alice
    bob = bob
    Operators = {alice}
    Commands = {"approve", "deny", "verify", "resume", "auto-safe", "semi-auto"}
    StubPhases = {"action_stub_pending_approval"}
    StartModes = {"manual", "auto-safe"}
    MaxCommands = 3
    MaxCrashes = 0
    MaxRestarts = 1
PROPERTIES
    CommandsEnd
    ApprovalSettles
CHECK_DEADLOCK FALSE
