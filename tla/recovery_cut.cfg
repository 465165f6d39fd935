SPECIFICATION Spec
CONSTANTS
    Account = {"a1"}
    Rule = {}
    TlsMode = {"implicit"}
    ImplicitTls = "implicit"
    SameSecond = FALSE
    FaultKind = {"crash"}
    MaxSecond = 1
    MaxDamages = 1
    MaxFaults = 1
CHECK_DEADLOCK FALSE
INVARIANTS ReadableSurvives
