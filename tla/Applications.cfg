CONSTANTS
    a1 = a1
    a2 = a2
    b1 = b1
    b2 = b2
    Permissions = {"a", "b", "c"}
    AppScopes = {"a", "b"}
    ProviderOf <- ProviderOfScope
    Reclassified = {"a"}
    RoleChanges = {"p"}
    Plans = {"p1"}
    MaxRevision = 1
    Lifecycles = {a1, a2, "o3"}
    Instructions = {b1, b2}
    Visits = {"v1"}
    MaxGeneration = 2
    MaxKey = 2
    CreationKeys = {a1, a2}
    CreationCalls = {b1, b2, "c3"}
    FreshIds = {"e1", "e2"}
    Quota = 3
    Apps = {"a"}
    DependsOn <- GraphOfRoot
    TestRequests = {a1, a2}
    Deliveries = {b1, b2}
    MaxSource = 2
    MaxVersions = 3
    MaxEnvRevision = 4
    Organizations = {a1, a2}
    Scopes = {b1, b2}
    MaxEpoch = 1
SPECIFICATION Spec
SYMMETRY Symmetry
INVARIANTS
    ImportSound
    CreationSound
PROPERTIES
    TokensSound
    PublicationReviewed
    IntrospectionSound
    EnvironmentSound
CHECK_DEADLOCK FALSE
