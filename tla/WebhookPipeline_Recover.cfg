CONSTANTS
    Instances = {i1}
    EventCount = 1
    Aggregates = {agg1}
    Organizations = {org1}
    AggregateOf <- OneAggregate
    OrganizationOf <- OneOrganization
    Applications = {crm}
    Audience <- EverybodyListens
    ClaimLimit = 2
    MaxAttempts = 2
    MaxRetryDelay = 1
    JitterPercents = {100}
    LeaseTicks = 2
    DeadlineTicks = 1
    Stalls = FALSE
    DatabaseErrors = TRUE
    Suspensions = TRUE
    MaxEndpoints = 2
    MaxBatches = 1
    NoOwner = NoOwner
    NoAggregate = NoAggregate
SPECIFICATION RecoveringSpec
INVARIANTS AttemptHoldsLease
PROPERTY EverythingSettles
