\* Three calls at a time, two credential rows.
CONSTANTS
  NULL = NULL
  q = q
  k = k
  Items <- MCItems
  Kind <- MCKind
  Key <- MCKey
  Points <- MCPoints
  Fine = 1
  PassPercent = 8000
  Reqs = {r1, r2, r3}
  AttemptIds = {a1}
  Creds = {c1, c2}
  Reasons = {fraud, error}
  Responses <- MCResponses
  Grades <- MCGrades
  AnswerBodies <- MCAnswerBodies
  GradeBodies <- MCGradeBodies
SYMMETRY Symmetry
SPECIFICATION ViewSpec
INVARIANTS
  ViewAddsUp
  CredentialBackedUnlessRaced
  OneCredentialUnlessRaced
  ScoreOfTheStoredSheet
PROPERTIES
  AnswersFrozenUnlessRaced
  ScoreIsFinal
  RevocationPermanent
\* An attempt that failed takes no further call: every step is refused.
CHECK_DEADLOCK FALSE
