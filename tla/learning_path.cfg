SPECIFICATION PathSpec
CONSTANTS
  Discoveries <- SomeDiscoveries
  Admissions <- SomeDecisions
  Extractions <- SomeExtractions
  Verbatim = {1, 2}
  MaxMentions = 1
  Runs <- SomeRuns
  Selections <- SomeSelections
  Builder = {b1, b2}
  MaxArtifacts = 2
  MaxVersions = 2
  AnchorSlots <- ThreeAnchors
  Candidates <- SomeCandidates
  Labels <- SomeLabels
  Proposals <- SomeProposals
  MaxPerAnchor = 2
  MaxPerRun = 2
  Samples = 3
  Quorum = 2
  Cap <- Caps
  Concurrency = 2
  AdmissionCases <- SomeAdmissions
  Domains <- TwoDomains
  K = 3
  BandK = 2
  ContestPercent = 10
  FloorPercent = 50
  Judges <- SomeJudges
  BankCases <- SomeBanks
  Path = {1, 2}
  Exporter = {1, 2}
  MaxStamp = 4
  FloorBand = 1
  LegCap = 2
  Cases <- SomeTrails
  Item = {i1, i2, m1}
  Matching = {m1}
  Prompt = {p1, p2}
  Challenge = {c1}
  Ref = {1, 2, 3, 4, 5, 6, 7, 8, 9}
INVARIANT StoredRunIsEarned
PROPERTY PublicationIsFaithful
INVARIANT ConsensusIsSound
INVARIANT LabelsAreOwnedOnce
INVARIANT EveryNodeIsAccountedFor
INVARIANT AdmittedOnItsOwnVerdict
INVARIANT GenerationsReplaceWholly
INVARIANT OfferedIsWhole
INVARIANT SeededTogether
INVARIANT FloorKeepsGates
INVARIANT LegsPartitionTheTrail
INVARIANT ReadyTrailIsGreatest
INVARIANT NextStopMakesProgress
INVARIANT WardsAreConserved
INVARIANT PerfectPlayWins
INVARIANT NothingOutlivesItsWave
INVARIANT RootCauseIsThrown
INVARIANT AdmittedTextStands
PROPERTY AdmissionSettles
CHECK_DEADLOCK FALSE
