CONSTANTS
  Callers = {c1, c2}
  None = None
  Failures = {"status"}
  Interval = 2
  Minimum = 1
  HasTimeout = TRUE
  Horizon = 2
  MaxVersion = 2
SPECIFICATION FairSpec
INVARIANTS TypeOK SingleFlight
PROPERTIES RequestsSpaced NeverOlder KeysSurviveFailure ErrorsExplain EveryCallEnds Contract CatchesUp
