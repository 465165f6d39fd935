SPECIFICATION Spec
CONSTANTS
    Appender = {}
    Exporter = {"e1", "e2"}
    Item = {"x1", "x2"}
    VERIFY_LIMIT = 3
    MaxEntries = 3
    MaxFaults = 0
    MaxAlterations = 0
CHECK_DEADLOCK FALSE
INVARIANTS
    EveryExportAudited
