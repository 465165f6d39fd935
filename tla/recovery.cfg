SPECIFICATION Spec
CONSTANTS
    Account = {"a1"}
    Rule = {"u1"}
    TlsMode = {"implicit", "starttls"}
    ImplicitTls = "implicit"
    SameSecond = FALSE
    FaultKind = {"transient", "backup", "wal", "read", "create", "restore", "crash"}
    MaxSecond = 1
    MaxDamages = 2
    MaxFaults = 3
\* The clock and the counts of faults are bounded.
CHECK_DEADLOCK FALSE
INVARIANTS
    RecoveryInv
    ReadableSurvivesUnlessFault
PROPERTIES
    SoundNeverRemoved
