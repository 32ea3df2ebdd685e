\* One worker whose flushes overlap, two runs of the rollup, two tenants.
CONSTANTS
  NULL = NULL
  Workers = {w1}
  Flights = {f1, f2}
  Runners = {g1, g2}
  MaxRuns = 2
  Tenants = {t1, t2}
  Calls = {c1, c2}
  Refs = {enrollment}
  LearnerOf <- MCLearnerOf
  MaxDay = 1
  Retention = 1
SYMMETRY Symmetry
SPECIFICATION Spec
INVARIANTS
  EventsConserved
  NeverOverbilled
  PushedIsBilled
  BillMatchesUsage
