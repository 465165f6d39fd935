SPECIFICATION Spec
CONSTANTS
    Appender = {"a1"}
    Exporter = {"e1", "e2"}
    Item = {"x1", "x2", "x3"}
    VERIFY_LIMIT = 3
    MaxEntries = 3
    MaxFaults = 1
    MaxAlterations = 1
\* The ledgers are bounded.
CHECK_DEADLOCK FALSE
INVARIANTS
    LedgerInv
    WormChainVerifies
    AlterationPinpointed
PROPERTIES
    ImplementsAppendOnly
