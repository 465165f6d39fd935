SPECIFICATION FairSpec
CONSTANTS
    Account = {"a1", "a2"}
    Rpc = {"r1", "r2"}
    SyncAll = SyncAll
    None = None
    COMMAND_CAPACITY = 2
    MaxCrashes = 1
    MaxCancels = 1
    MaxHangs = 1
\* A daemon with nothing to do waits.
CHECK_DEADLOCK FALSE
INVARIANTS
    LifecycleInv
PROPERTIES
    BootCompletes
    ResyncServed
