CONSTANTS
  JWKs <- MCJWKs
  Requests <- MCRequests
  MaxKeys = 3
SPECIFICATION Spec
INVARIANTS KeyIsFirstCandidate EveryUsableKeyOnce KidFirst PurposeKept PublishingKeepsSelection
