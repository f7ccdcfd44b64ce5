SPECIFICATION Spec
CONSTANTS
    Requests <- MCRequests
    Bodies <- MCBodies
    Turns <- MCTurns
    Bytes <- MCBytes
    MaxEntries = 3
    MaxBytes = 4
INVARIANT CacheWithinBudget
INVARIANT OutputsHaveCalls
INVARIANT ReplayStaysHome
INVARIANT RememberedBeforeTold
