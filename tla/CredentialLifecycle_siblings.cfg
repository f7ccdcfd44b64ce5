SPECIFICATION Spec
CONSTANTS
    req1 = req1
    req2 = req2
    loop = loop
    admin = admin
    Threads <- LoopAndRequest
    Roles <- LoopRequestRoles
    MaxVersion = 3
    MaxFailures = 2
    Faults = {"transient", "lostResponse", "revoke", "expire", "rotate", "login", "restart"}
    MaxEvents = 2
INVARIANT NoTokenReplay
