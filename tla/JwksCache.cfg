CONSTANTS
  Requests = {r1, r2}
  Kids = {k1, k2}
  Ttl = 2
  Latency = 1
  MaxTime = 5
  MaxRotations = 2
  None = None
SPECIFICATION Spec
SYMMETRY JwksSymmetry
INVARIANTS
  NewKeysAreFound
PROPERTY
  WithdrawnKeysExpire
