SPECIFICATION Spec
CONSTANTS
  Item = {i1}
  Matching = {}
  Prompt = {p1}
  Challenge = {1, 2}
  Ref = {1}
  Handler = {h1, h2}
  NoRef = NoRef
  MaxAssets = 2
ACTION_CONSTRAINT IdsInOrder
PROPERTY OnlySupersededAreRetired
