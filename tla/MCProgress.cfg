\* Three calls at a time, two lessons, one more attempt row than allowed.
CONSTANTS
  NULL = NULL
  Reqs = {r1, r2, r3}
  Lessons = {l1, l2}
  Enrollments = {e1}
  AttemptIds = {a1, a2}
  MaxAttempts = 1
SYMMETRY Symmetry
SPECIFICATION Spec
INVARIANTS
  ProgressCoherent
  ExamUnlockedByCompletion
  MaxAttemptsUnlessRaced
