\* Crashes, lost answers, mismatches and a damaged file.
SPECIFICATION Spec
CONSTANTS
  ArtifactTypes = {events}
  Records = {r1, r2, r3, r4}
  NoId = NoId
  SegmentCapacity = 2
  MaxConcurrentUploads = 1
  MaxUploadRetries = 1
  KeepLast = 1
  RetryFailedUploads = TRUE
  VerifyClosedSegments = TRUE
  DeleteVerified = TRUE
  MaxSeq = 3
  MaxFaults = 2
  MaxDamage = 1
  MaxCrashes = 2
SYMMETRY RecordSymmetry
CHECK_DEADLOCK FALSE
INVARIANT TypeOK
INVARIANT PersistedSegmentRetained
INVARIANT VerifiedIsRestorable
INVARIANT NoUploadBeforeClose
INVARIANT OneSegmentPerRecord
INVARIANT AcceptedRecordsKept
INVARIANT NewestStaysLocal
PROPERTY DurableProgress
PROPERTY ArchiveBehaves
