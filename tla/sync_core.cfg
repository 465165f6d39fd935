SPECIFICATION Spec
CONSTANTS
    Account = {"a1"}
    Folder = {"inbox"}
    m1 = m1
    m2 = m2
    s1 = s1
    s2 = s2
    Mail = {m1, m2}
    Oversized = {}
    Sync = {s1, s2}
    OtherReads = {}
    ReadRequests = {}
    MatchedActions <- NoActions
    None = None
    MaxUid = 2
    MaxValidity = 2
    MaxFaults = 1
    MaxRecoveries = 0
SYMMETRY Symmetry
CHECK_DEADLOCK FALSE
INVARIANTS
    CheckpointSound
