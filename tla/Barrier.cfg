SPECIFICATION Spec
CONSTANTS
  p1 = p1
  p2 = p2
  p3 = p3
  v1 = v1
  Procs = {p1, p2, p3}
  CVs = {v1}
  CV = v1
  Droppers = {p3}
  NULL = NULL
  MaxPhase = 2
  MaxAttach = 1
SYMMETRY Symmetry
CHECK_DEADLOCK FALSE
INVARIANT PhaseIsNear
INVARIANT CountsAreTrue
INVARIANT OneElected
PROPERTY NobodyLeftBehind
