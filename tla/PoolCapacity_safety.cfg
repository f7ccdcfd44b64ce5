SPECIFICATION FairUsableSpec
CONSTANTS
    r1 = r1
    r2 = r2
    r3 = r3
    Requests = {r1, r2}
    NumAccounts = 2
    Limit = 1
    Choices = 4
    Backends <- SplitBackends
    Jobs <- AnyJob
    MaxEvents = 1
INVARIANT TypeOK
INVARIANT SlotAccounting
INVARIANT LimitRespected
INVARIANT NoLostWakeup
PROPERTY ImplementsLeasePool
PROPERTY EveryRequestEnds
ACTION_CONSTRAINT FewJobs
