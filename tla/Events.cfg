CONSTANTS
    a1 = a1
    a2 = a2
    b1 = b1
    b2 = b2
    Instances = {a1, a2}
    EventCount = 1
    Aggregates = {agg1}
    Organizations = {org1}
    AggregateOf <- OneAggregate
    OrganizationOf <- OneOrganization
    Applications = {crm}
    Audience <- EverybodyListens
    ClaimLimit = 1
    MaxAttempts = 1
    MaxRetryDelay = 1
    JitterPercents = {100}
    LeaseTicks = 1
    DeadlineTicks = 0
    Stalls = TRUE
    DatabaseErrors = TRUE
    Suspensions = TRUE
    MaxEndpoints = 2
    MaxBatches = 1
    Destinations = {"u1", "u2", "u3"}
    MaxSecrets = 4
    HoneycombOps = {a1, a2}
    HoneycombCalls = {b1, b2}
    MaxIamRevision = 4
    MaxConfiguration = 2
    MaxPosts = 2
    Receivers = {"s1"}
    FanEvents = {a1, a2}
    Redirects = {"r1"}
    MaxConfig = 4
    People = {a1, a2}
    Changes = {b1, b2, "e3"}
    MaxGranted = 1
    Members = {a1, a2, "s1"}
    Silicons = {"s1"}
    Tags = {b1, b2}
    NoOwner = NoOwner
    NoAggregate = NoAggregate
SPECIFICATION EventsSpec
SYMMETRY Symmetry
INVARIANTS
    EndpointSound
    SiliconWebhookSound
    HoneycombSound
PROPERTIES
    OutcomesSound
    ProjectionSound
    DisclosureSound
    RoutingSound
CHECK_DEADLOCK FALSE
