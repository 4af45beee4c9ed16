CONSTANTS
  Verifiers = {v1, v2}
  Calls <- KeyCalls
  Carried <- KeyCarried
  Config <- KeyConfig
  Published <- MCPublished
  Refreshes = TRUE
  MaxTime = 0
  MaxVersion = 3
SPECIFICATION FairSpec
INVARIANTS TypeOK
PROPERTIES RevocationHolds TypeIsSigned PublishedKeySuffices EveryVerifyEnds
