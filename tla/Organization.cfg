CONSTANTS
    a1 = a1
    a2 = a2
    a3 = a3
    b1 = b1
    b2 = b2
    Members = {a1, a2, a3}
    Updates = {b1, b2}
    MaxWrites = 4
    MaxOrgVersion = 3
    GrantableSets <- Grantable
    Staff = {"s1", b1, b2}
    SensitiveWrites = {"q1"}
    WriteBy <- OneAuthor
    WriteRoute <- OneRoute
    WriteFields <- TwoFields
    ApprovalLife = 1
    RecordLife = 2
    PolicyChoices <- Policies
    MaxPolicy = 1
    MaxApprovals = 2
    Subordinates = {a1, a2, a3}
    Principals = {"c1"}
    Moves = {b1, b2}
    Carbons = {"c1", "c2"}
    Invitations = {b1, b2}
    MaxCodes = 2
    InviteLife = 2
    MaxAttempts = 2
    Cooldown = 1
    Ttl = 2
    Notices = {"n1"}
    Announcers = {b1, b2}
    NoticeLease = 1
    MaxSends = 2
    DirectoryCarbons = {"c1"}
    DirectorySilicons = {"s1"}
    Tags = {"t1"}
    TrustRules = {"k1"}
    Edits = {b1, b2}
    ScopeSets <- ScopesHeld
    Levels = {1, 2}
    MaxEdits = 2
SPECIFICATION Spec
SYMMETRY Symmetry
INVARIANTS
    InvitationSound
    DirectorySound
    HierarchySound
    ReadsSound
PROPERTIES
    NotificationSound
    MembershipSound
    SensitiveActionSound
CHECK_DEADLOCK FALSE
