CONSTANTS
    CreationKeys = {k1, k2}
    CreationCalls = {c1, c2, c3}
    FreshIds = {e1, e2}
    Quota = 3
SPECIFICATION CreationSpec
PROPERTY CompensationErases
CHECK_DEADLOCK FALSE
