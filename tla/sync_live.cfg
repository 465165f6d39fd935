SPECIFICATION FairSpec
CONSTANTS
    Account = {"a1", "a2"}
    Folder = {"inbox"}
    m1 = m1
    m2 = m2
    s1 = s1
    s2 = s2
    Mail = {m1, m2}
    Oversized = {m1}
    Sync = {s1}
    OtherReads = {}
    ReadRequests = {}
    MatchedActions <- OneRemote
    None = None
    MaxUid = 2
    MaxValidity = 1
    MaxFaults = 1
    MaxRecoveries = 1

CHECK_DEADLOCK FALSE
PROPERTIES DeliveredMailStored
