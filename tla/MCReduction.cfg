\* Every answer of the executor; the budget is enough for some searches only.
SPECIFICATION Spec
CONSTANTS
    NumActions = 5
    NumRoles = 2
    RoleOf <- MCRoleOf
    At <- MCAt
    Offset <- MCOffset
    MaxTrials = 16
INVARIANTS Confirmed OneMinimal NeverRaises
PROPERTIES Shrinks
\* A reduction stops when it is done.
CHECK_DEADLOCK FALSE
