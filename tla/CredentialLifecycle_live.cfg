SPECIFICATION FairSpec
CONSTANTS
    req1 = req1
    req2 = req2
    loop = loop
    admin = admin
    Threads <- Everybody
    Roles <- ScanOnlyRoles
    MaxVersion = 2
    MaxFailures = 1
    Faults = {"revoke", "login", "logout"}
    MaxEvents = 1
PROPERTY EveryOperationEnds
PROPERTY FollowsFile
ACTION_CONSTRAINT ImportsFirst
