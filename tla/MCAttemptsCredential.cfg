\* A second grade call that overlaps the first takes back the pass.
CONSTANTS
  NULL = NULL
  q = q
  k = k
  Items <- MCItems
  Kind <- MCKind
  Key <- MCKey
  Points <- MCPoints
  Fine = 1
  PassPercent = 8000
  Reqs = {r1, r2}
  AttemptIds = {a1}
  Creds = {c1, c2}
  Reasons = {fraud, error}
  Responses <- MCResponses
  Grades <- MCGrades
  AnswerBodies <- MCAnswerBodies
  GradeBodies <- MCGradeBodies
SYMMETRY Symmetry
SPECIFICATION ViewSpec
INVARIANT
  CredentialBacked
CHECK_DEADLOCK FALSE
