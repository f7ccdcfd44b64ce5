SPECIFICATION Spec
CONSTANTS
    req1 = req1
    req2 = req2
    loop = loop
    admin = admin
    Threads <- Everybody
    Roles <- EverybodyRoles
    MaxVersion = 2
    MaxFailures = 2
    Faults = {"transient", "lostResponse", "writeFails", "cancel", "rateLimit", "quota", "revoke", "restart"}
    MaxEvents = 1
INVARIANT TypeOK
INVARIANT DeletingIsDisabled
INVARIANT RefreshLockExact
INVARIANT NoResurrection
INVARIANT CacheHonest
