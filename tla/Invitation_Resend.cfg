CONSTANTS
    Carbons = {c1}
    Invitations = {i1}
    MaxCodes = 3
    InviteLife = 2
    MaxAttempts = 2
    Cooldown = 1
    Ttl = 2
SPECIFICATION InvitationSpec
INVARIANT CodeWindowCarried
CHECK_DEADLOCK FALSE
