SPECIFICATION Spec
CONSTANTS
    Users = {u1, u2}
    Months = {m1, m2}
    Kinds = {k1, k2}
    None = None
    Requests = {r1, r2}
    Viewers = {v1}
    MaxBudgets = 2
    MaxRows = 2
    MaxCalls = 6
SYMMETRY Alike
INVARIANTS
    TypeOK
    DuplicatesNeedOverlap
    ActivationRecordsNoExpense
CHECK_DEADLOCK FALSE
