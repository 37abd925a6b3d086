CONSTANTS
    Iam = Iam
    Keys = {k1}
    Sessions = {s1}
    Applications = {a1}
    MaxCodes = 2
    MaxTokens = 2
    MaxSuspensions = 1
    MaxErasures = 2
    Transactions = {t1}
SPECIFICATION Spec
SYMMETRY KeySymmetry
PROPERTY AuthoritySound
