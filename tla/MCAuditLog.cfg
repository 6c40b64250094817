CONSTANTS
    Kinds <- MCKinds
    Filters <- MCFilters
    Unset = Unset
    Limit = 1
    MaxEvents = 3
    MaxTime = 1
    MaxAsked = 2
SPECIFICATION AuditSpec
INVARIANTS
    AuditTypeOK
    NothingSkipped
    FilterMatchesLabel
