SPECIFICATION FirstSpec
CONSTANTS
  r1 = r1
  r2 = r2
  a1 = a1
  a2 = a2
  chat = chat
  responses = responses
  Requests = {r1, r2}
  Accounts = {a1, a2}
  Backends = {chat, responses}
  Mixes <- MCMixes
  Renderable <- MCRenderable
  Retries <- MCRetries
  FirstCatalog <- MCFirstCatalog
  MaxAttempts = 2
  Limit = 1
  MaxChanges = 1
INVARIANT TypeOK
INVARIANT LeaseExact
INVARIANT NoBlindReplay
INVARIANT PinnedStaysHome
INVARIANT TriesAreBudgeted
INVARIANT VerdictNeedsRefresh
PROPERTY GivesUpLate
PROPERTY EveryRequestEnds
