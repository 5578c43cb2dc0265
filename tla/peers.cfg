SPECIFICATION Spec
CHECK_DEADLOCK FALSE
CONSTANTS
  s1 = s1
  s2 = s2
  s3 = s3
  Sends = {s1, s2}
  Retries = 1
  MaxKeys = 2
  MaxDeletions = 1
  MaxFailures = 2
SYMMETRY MCSymmetry
INVARIANTS SealedOnlyByRotation CacheHoldsLastAnswer DuplicateWasStored InheritsNothing
