\* Every sheet of one single, one multi and one constructed item.
\* Three items of 2 ticks: the percentages are sixths, and the pass mark is
\* 66.668, between two hundredths and above 4/6, which meets it by rounding.
CONSTANTS
  NULL = NULL
  s = s
  m = m
  k = k
  a = a
  b = b
  c = c
  Items <- MCItems
  Kind <- MCKind
  Key <- MCKey
  Points <- MCPoints
  Fine = 10
  PassPercent = 66668
  Options <- MCOptions
  Grades <- MCGrades
  MaxPicks <- MCMaxPicks
SPECIFICATION MarkSpec
INVARIANTS
  ScoreInRange
  PassMarkHonoured
PROPERTIES
  PicksAreMonotone
  GradesAreMonotone
CHECK_DEADLOCK FALSE
