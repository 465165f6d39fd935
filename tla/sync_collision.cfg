SPECIFICATION Spec
CONSTANTS
    Account = {"a1"}
    Folder = {"inbox", "sent"}
    m1 = m1
    m2 = m2
    s1 = s1
    s2 = s2
    Mail = {m1, m2}
    Oversized = {}
    Sync = {s1}
    OtherReads = {}
    ReadRequests = {}
    MatchedActions <- NoActions
    None = None
    MaxUid = 2
    MaxValidity = 1
    MaxFaults = 0
    MaxRecoveries = 0

CHECK_DEADLOCK FALSE
INVARIANTS NoMailLossAtRest
