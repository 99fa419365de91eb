SPECIFICATION Spec
CONSTANTS
  Curator = {c1, c2}
  Project = {p1, p2}
  MaxEdits = 2
  MaxPuts = 2
  MaxKills = 1
  c1 = c1
  c2 = c2
  p1 = p1
  p2 = p2
SYMMETRY Symmetry
INVARIANT TypeOK
INVARIANT TreeMatchesBaseline
PROPERTY PublishKeepsOthersEdits
CHECK_DEADLOCK FALSE
