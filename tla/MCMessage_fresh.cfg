CONSTANTS
  k1 = k1
  k2 = k2
  pair = pair
  h1 = h1
  h2 = h2
  Keys = {k1, k2, pair}
  Fits <- MCFits
  Heads = {h1, h2}
  Named <- MCNamed
  None = None
  Plaintexts = {"text"}
  Nil = {}
  Received <- MCReceived
  Careless = {}
  MaxRecipients = 2
  MaxEncryptions = 3
SPECIFICATION Spec
INVARIANTS TypeOK RoundTrip DecryptAllAgrees ProtectedParametersHold
