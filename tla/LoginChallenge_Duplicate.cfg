CONSTANTS
    Email = Email
    Phone = Phone
    LoginKeys = {k1, k2}
    MailKeys = {k1, k2}
    PhoneKeys = {}
    MaxChallenges = 3
    VerifyKeys = {v1}
    MaxAttempts = 2
    Cooldown = 2
    Ttl = 3
SPECIFICATION LoginSpec
INVARIANT NoDuplicateSend
