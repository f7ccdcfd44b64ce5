SPECIFICATION Spec
CONSTANTS
    req1 = req1
    req2 = req2
    loop = loop
    admin = admin
    Threads <- RequestsAndLoop
    Roles <- RequestsLoopRoles
    MaxVersion = 3
    MaxFailures = 2
    Faults = {"revoke", "cancel"}
    MaxEvents = 1
INVARIANT DisabledIsSaved
