CONSTANTS
    a1 = a1
    a2 = a2
    b1 = b1
    b2 = b2
    Keys = {"k1"}
    Tokens = {"t1"}
    Verifiers = {a1, a2}
    ProofTtl = 1
    MaxEpoch = 2
    MaxChanges = 2
    Requests = {a1, a2, "r3"}
    Logins = {b1, b2}
    SsoCarbons = {"p1", "p2"}
    Connections = {b1, b2}
    Attempts = {a1, a2}
    MaxReports = 2
    LoginKeys = {"k1", "k2", "k3"}
    MailKeys = {"k1", "k3"}
    PhoneKeys = {"k2", "k3"}
    Email = "email"
    Phone = "phone"
    MaxChallenges = 3
    VerifyKeys = {"v1"}
    LoginSessions = {"s1", "s2"}
    Targets = {"t1", "t2"}
    StepUpRequests = {"k1", "k2", "k3"}
    SessionAsking <- SessionPerRequest
    TargetAsked <- TargetPerRequest
    MaxStepUps = 2
    AssertionTtl = 1
    Signups = {a1, a2}
    ContactKeys <- SignupRequests
    SignupOf <- SignupAsking
    ContactOf <- ContactAsked
    Emails = {"e1", "e2"}
    MaxEntries = 4
    SignupTtl = 2
    Scopes = {"s1"}
    Processes = {a1, a2}
    Life = 1
    MaxClock = 2
    MaxFamilies = 2
    MaxKeys = 2
    MaxAttempts = 2
    Cooldown = 1
    Ttl = 2
    Policies <- Limits
    Callers = {a1, a2}
    Grace = 1
    LastTick = 6
SPECIFICATION IdentitySpec
SYMMETRY Symmetry
INVARIANTS
    LoginSound
    SignupSound
    CliSound
PROPERTIES
    LimitSound
    StepUpSound
    OboSound
    RotationSound
    SsoSound
CHECK_DEADLOCK FALSE
