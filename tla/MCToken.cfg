CONSTANTS
  alice = alice
  mallory = mallory
  none = none
  a = a
  b = b
  c = c
  Claims <- MCClaims
  Empty = none
  NoText = NoText
  Signers = {alice, mallory}
  Trusted = {alice}
  Confirmed = Confirmed
  Confirms = Confirmed
  Cnf <- MCCnf
  Presented <- MCPresented
  Absent = Absent
  Malformed = Malformed
  Symmetric = Symmetric
  Asymmetric = Asymmetric
  Rules <- MCRules
  Received <- MCReceived
  MaxOptions = 2
  MaxSignatures = 3
SPECIFICATION Spec
INVARIANTS TypeOK AuthenticClaims SignaturesFit ConfirmationKeySecret
PROPERTIES RulesGuard NeverInClear
