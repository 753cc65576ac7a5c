\* A crash between the removal of the .open file and the save of the manifest.
SPECIFICATION Spec
CONSTANTS
  ArtifactTypes = {events}
  Records = {r1, r2}
  NoId = NoId
  SegmentCapacity = 1
  MaxConcurrentUploads = 1
  MaxUploadRetries = 2
  KeepLast = 1
  RetryFailedUploads = TRUE
  VerifyClosedSegments = TRUE
  DeleteVerified = TRUE
  MaxSeq = 2
  MaxFaults = 0
  MaxDamage = 0
  MaxCrashes = 1
CHECK_DEADLOCK FALSE
INVARIANT UnverifiedDataKept
