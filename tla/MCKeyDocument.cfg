CONSTANTS
  ecA = ecA
  ecB = ecB
  okpS = okpS
  okpX = okpX
  rsaA = rsaA
  rsaB = rsaB
  akp = akp
  oct = oct
  v1 = v1
  v2 = v2
  leaf = leaf
  root = root
  encLeaf = encLeaf
  stranger = stranger
  Pairs <- MCPairs
  Public <- MCPublic
  Cert <- MCCert
  NoMaterial = NoMaterial
  Foreign = Foreign
  Malformed = Malformed
  Received <- MCReceived
  Settings <- MCSettings
  MaxChain = 2
SPECIFICATION Spec
INVARIANTS NothingSecret CertifiedKey RoundTrip SameThumbprint
