SPECIFICATION Spec
CONSTANTS
  Curator = {c1}
  Project = {p1}
  MaxEdits = 1
  MaxPuts = 0
  MaxKills = 0
  c1 = c1
  p1 = p1
SYMMETRY Symmetry
PROPERTY SpineSurvivesAdd
CHECK_DEADLOCK FALSE
