SPECIFICATION Spec
CONSTANTS
  Detour = {d1}
  Process = {p1}
  Token = {1, 2, 3, 4}
  NoToken = NoToken
  NoDetour = NoDetour
  NoProcess = NoProcess
  Pin <- Identity
  Outline <- Outlines
  MaxAttempts = 2
  MaxConcurrent = 2
  StaleAfter = 0
  MaxGen = 2
  Handler = {h1, h2}
  Qualified <- Identity
  Profile <- Profiles
ACTION_CONSTRAINT TokensInOrder
SYMMETRY Symmetry
INVARIANT ContentMatchesStatus StepsAreOneAttempts DetourSpendIsBounded SuccessWasPublished
INVARIANT OfferedSetExisted AdoptedWasAccepted AnswersAreUnderAdoption
PROPERTY ActivatedOnCurrentAssets ReferencesFollowTheExpedition DetourSettles
