CONSTANTS
  Verifiers = {v1}
  Calls <- ClaimCalls
  Carried <- ClaimCarried
  Config <- ClaimConfig
  Published <- FirstSet
  Refreshes = TRUE
  MaxTime = 4
  MaxVersion = 1
SPECIFICATION Spec
INVARIANTS AcceptedOnce
