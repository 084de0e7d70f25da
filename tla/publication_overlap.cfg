SPECIFICATION PublicationSpec
CONSTANTS
  Runs <- SomeRuns
  Selections <- SomeSelections
  Builder = {b1, b2}
  MaxArtifacts = 2
  MaxVersions = 2
INVARIANT VersionsNameTheirOwn
CHECK_DEADLOCK FALSE
