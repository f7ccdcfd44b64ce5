SPECIFICATION Spec
CONSTANTS
    q1 = q1
    q2 = q2
    q3 = q3
    q4 = q4
    accountA = accountA
    accountB = accountB
    none = none
    None = none
    Requests = {q1, q2, q3}
    Tenants = {"public", "team"}
    Aliases = {"x"}
    Accounts = {accountA, accountB}
    Catalogs <- Mixed
    Changes = {"responses", "chat"}
    Streaming = {TRUE}
    MaxActive = 2
    MaxHints = 2
    MaxEvents = 1
INVARIANT TypeOK
INVARIANT StateStaysHome
INVARIANT SessionHasOneHome
INVARIANT OwnerIsRemembered
SYMMETRY RequestSymmetry
ACTION_CONSTRAINT PublicAlone
