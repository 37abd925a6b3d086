CONSTANTS
    Iam = Iam
    Keys = {k1, k2}
    Sessions = {s1}
    Applications = {}
    MaxCodes = 0
    MaxTokens = 3
    MaxSuspensions = 0
    MaxErasures = 3
    Transactions = {t1, t2}
SPECIFICATION Spec
SYMMETRY FirstPartySymmetry
PROPERTY FamilySound
