CONSTANTS
  Verifiers = {v1, v2}
  Calls <- ClaimCalls
  Carried <- ClaimCarried
  Config <- ClaimConfig
  Published <- FirstSet
  Refreshes = TRUE
  MaxTime = 4
  MaxVersion = 1
SYMMETRY Symmetric
SPECIFICATION Spec
INVARIANTS OnlyAcceptedRecorded OnceWhileKept
PROPERTIES InLifetime
