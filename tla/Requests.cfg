CONSTANTS
    a1 = a1
    a2 = a2
    b1 = b1
    b2 = b2
    Orgs = {"o1", "o2"}
    Sessions = {"s1"}
    Keys = {"k1"}
    Tokens <- MutationTokens
    Resources <- MutationResources
    Slots = {b1, b2}
    MaxChanges = 2
    MaxProofs = 1
    Pods = {a1, a2}
    Versions = {1, 2}
    Clients = {b1, b2}
    Payloads = {"p", "q"}
    ReplayWindow = 1
    RecordLife = 3
    BundleApps = {1, 2}
    Homes = {"o1", "o2"}
    Handoffs = {a1, a2}
    HandoffKeys = {b1, b2}
    MaxScopeVersion = 2
    Rows = {1, 2, 3}
    PageSize = 1
    MaxAt = 2
    LoginSessions = {a1, a2}
    Calls = {b1, b2}
    MaxTries = 2
    Principals = {"c1", "c2", "s1"}
    Retriers = {"c1", "c2"}
    Names <- NamedInRequest
    Planes = {"production", "testing"}
    PlaneOf <- PlaneOfPrincipal
    KeptFor = 2
    MaxTime = 3
SPECIFICATION Spec
SYMMETRY Symmetry
INVARIANTS
    MutationSound
    ListedOnce
    CutoverSound
PROPERTIES
    IdempotencySound
    BundleSound
    LogoutSound
CHECK_DEADLOCK FALSE
