\* Fewer faults than retries, fewer damaged files than upload slots.
SPECIFICATION OrderedFairSpec
CONSTANTS
  ArtifactTypes = {events}
  Records = {1, 2, 3}
  NoId = NoId
  SegmentCapacity = 1
  MaxConcurrentUploads = 2
  MaxUploadRetries = 2
  KeepLast = 1
  RetryFailedUploads = TRUE
  VerifyClosedSegments = TRUE
  DeleteVerified = TRUE
  MaxSeq = 3
  MaxFaults = 1
  MaxDamage = 1
  MaxCrashes = 1
CHECK_DEADLOCK FALSE
PROPERTY ClosedSegmentsReachR2
