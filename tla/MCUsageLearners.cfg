\* One learner calls with her enrollment and with her attempt.
CONSTANTS
  NULL = NULL
  Workers = {w1}
  Flights = {f1}
  Runners = {g1}
  MaxRuns = 2
  Tenants = {t1}
  Calls = {c1, c2}
  Refs = {enrollment, attempt}
  LearnerOf <- MCLearnerOf
  MaxDay = 1
  Retention = 1
SYMMETRY Symmetry
SPECIFICATION Spec
INVARIANT
  ActiveLearnersAreLearners
