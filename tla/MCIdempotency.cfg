\* Three requests under one key or none.
CONSTANTS
  NULL = NULL
  Reqs = {r1, r2, r3}
  Keys = {k1}
  Prints = {p1, p2}
SPECIFICATION Spec
INVARIANTS
  AtMostOnce
  OneOutcomePerKey
  AnswersAreHonest
PROPERTIES
  EveryRequestAnswered
  KeepsPromise
\* Every request that ever arrives is answered: nothing is left to do.
CHECK_DEADLOCK FALSE
