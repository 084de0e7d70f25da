SPECIFICATION GroundingSpec
CONSTANTS
  Samples = 3
  Quorum = 2
  Cap <- Caps
  Concurrency = 2
  AdmissionCases <- SomeAdmissions

PROPERTY NoTaskStartsAfterRejection
CHECK_DEADLOCK FALSE
