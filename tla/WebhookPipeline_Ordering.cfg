CONSTANTS
    Instances = {i1, i2}
    EventCount = 2
    Aggregates = {agg1}
    Organizations = {org1}
    AggregateOf <- OneAggregate
    OrganizationOf <- OneOrganization
    Applications = {crm}
    Audience <- EverybodyListens
    ClaimLimit = 1
    MaxAttempts = 2
    MaxRetryDelay = 1
    JitterPercents = {100}
    LeaseTicks = 1
    DeadlineTicks = 0
    Stalls = TRUE
    DatabaseErrors = TRUE
    Suspensions = FALSE
    MaxEndpoints = 1
    MaxBatches = 0
    NoOwner = NoOwner
    NoAggregate = NoAggregate
SPECIFICATION Spec
SYMMETRY InstanceSymmetry
INVARIANTS LaneOrder ExpansionAtomic
