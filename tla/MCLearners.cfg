\* Two calls and one reader at a time, three learners, pages of one or two.
CONSTANTS
  NULL = NULL
  Reqs = {r1, r2}
  Readers = {v1}
  Ids = {1, 2, 3}
  Refs = {x, y, z}
  Limits = {1, 2}
  MaxTime = 1
SYMMETRY Symmetry
SPECIFICATION Spec
INVARIANTS
  NoneListedTwice
  AllPresentAreListed
  ConflictIs409UnlessTaken
