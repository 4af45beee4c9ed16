CONSTANTS
  None = None
  Absent = Absent
  Empty = Empty
  a1 = a1
  t1 = t1
  k1 = k1
  k2 = k2
  Alg = a1
  Typ = t1
  Received <- MCReceived
  Settings <- MCSettings
SPECIFICATION Spec
INVARIANTS TypeOK FieldsAreSigned AcceptedIsWellFormed
PROPERTIES RoundTrip
