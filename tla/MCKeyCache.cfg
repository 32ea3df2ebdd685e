\* Two workers and two requests: a lookup, a purge and another request race.
CONSTANTS
  NULL = NULL
  Workers = {w1, w2}
  Reqs = {r1, r2}
  Keys = {k1}
  Expiries <- MCExpiries
  Prefix <- MCPrefix
  TTL = 2
  MaxLookup = 1
  MaxTime = 3
SYMMETRY Symmetry
SPECIFICATION Spec
INVARIANTS
  ExpiryHonoured
  RevocationIsBounded
PROPERTY
  PurgedKeyIsDeadUnlessRaced
