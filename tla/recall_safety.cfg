SPECIFICATION Spec
CONSTANTS
  Item = {i1, i2}
  Matching = {}
  Prompt = {p1}
  Challenge = {1, 2}
  Ref = {1, 2}
  Handler = {h1, h2}
  NoRef = NoRef
  MaxAssets = 2
ACTION_CONSTRAINT IdsInOrder
SYMMETRY Symmetry
INVARIANT TypeOK StatusMatchesReplay ReplayIsNeverRefused
PROPERTY ImplementsFight
