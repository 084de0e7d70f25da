SPECIFICATION Spec
CONSTANTS
  Expedition = {e1}
  Process = {p1}
  Handler = {h1}
  Token = {1, 2}
  NoToken = NoToken
  NoExpedition = NoExpedition
  NoProcess = NoProcess
  MaxAttempts = 2
  MaxConcurrent = 1
  StaleAfter = 0
  MaxRequests = 0
  MaxFaults = 1
ACTION_CONSTRAINT TokensInOrder
PROPERTY ReapOnlyMarksTheTimeline
