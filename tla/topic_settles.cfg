SPECIFICATION FairSpec
CONSTANTS
  Expedition = {e1, e2}
  Process = {p1}
  Handler = {h1}
  Token = {1, 2, 3, 4}
  NoToken = NoToken
  NoExpedition = NoExpedition
  NoProcess = NoProcess
  MaxAttempts = 2
  MaxConcurrent = 1
  StaleAfter = 0
  MaxRequests = 1
  MaxFaults = 2
ACTION_CONSTRAINT TokensInOrder OneRowOrAQueue
PROPERTY EveryRequestSettles
