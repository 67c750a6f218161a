\* Two processes on one log, and somebody who edits it.
CONSTANTS
  a1 = a1  a2 = a2  p1 = p1  p2 = p2
  Agents = {a1, a2}
  Procs = {p1, p2}
  MaxKeys = 2
  MaxEvents = 3
  MaxEdits = 2
  MaxId = 3
  MaxTs = 2
  MaxDepth = 3
  Values <- MCValues
SPECIFICATION MCSpec
CHECK_DEADLOCK FALSE
SYMMETRY Symmetry
ACTION_CONSTRAINT Bound
INVARIANTS TrailTypeOK OneKey PassMeansWhole UntouchedPasses QueriesExact CanonicalExact AopExact
