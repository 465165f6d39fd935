SPECIFICATION MCSpec
CONSTANTS
    Text = {"t1", "header", "wide", "regex"}
    Invalid = {"header", "wide", "regex"}
    Uncompilable = {"regex"}
    Imported = {"t1", "header"}
    Request = {"r1", "r2"}
    None = None
    MaxFaults = 2
    MAX_AST_DEPTH = 3
    Nesting = 4
\* Every RPC may be over and no other asked for.
CHECK_DEADLOCK FALSE
INVARIANTS
    RulesInv
    AgreeAtRest
    
    RuleMeaning
    RulesVetted
PROPERTIES
    UpdatesOnlyPersisted
