SPECIFICATION TimelySpec
CONSTANTS
  Expedition = {e1}
  Process = {p1, p2}
  Handler = {h1}
  Token = {1, 2, 3}
  NoToken = NoToken
  NoExpedition = NoExpedition
  NoProcess = NoProcess
  MaxAttempts = 2
  MaxConcurrent = 1
  StaleAfter = 2
  MaxRequests = 1
  MaxFaults = 1
  Pace = 1
ACTION_CONSTRAINT TokensInOrder
SYMMETRY Symmetry
INVARIANT HealthyAttemptKeepsItsClaim
