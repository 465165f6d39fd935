SPECIFICATION Spec
CONSTANTS
    p1 = p1
    p2 = p2
    r1 = r1
    r2 = r2
    Id = {"i1", "i2"}
    Key = {"k1", "k2"}
    Password = {p1, p2}
    Config <- OwnKeys
    AddsExisting = FALSE
    Request = {r1, r2}
    None = None
    FaultKind = {"save", "set", "snapshot", "undo", "forget", "delete", "cancel", "crash"}
    MaxFaults = 2
SYMMETRY Symmetry
\* Every RPC may be over and no other asked for.
CHECK_DEADLOCK FALSE
INVARIANTS
    KeyringInv
PROPERTIES
    RequestsSpareOthers
