SPECIFICATION Spec
CONSTANTS
    q1 = q1
    q2 = q2
    q3 = q3
    q4 = q4
    accountA = accountA
    accountB = accountB
    none = none
    None = none
    Requests = {q1, q2, q3}
    Tenants = {"team"}
    Aliases = {"x"}
    Accounts = {accountA, accountB}
    Catalogs <- AllResponses
    Changes = {"responses", "chat"}
    Streaming = {TRUE}
    MaxActive = 2
    MaxHints = 2
    MaxEvents = 0
SYMMETRY RequestSymmetry
INVARIANT TurnUsedOnce
