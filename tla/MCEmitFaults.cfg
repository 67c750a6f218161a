\* Any scheduling of three emits, a clock that may be set back, and a process that fails.
CONSTANTS
  e1 = e1  e2 = e2  e3 = e3  a1 = a1  a2 = a2
  Emits = {e1, e2, e3}
  Agents = {a1, a2}
  Versions = {1, 2}
  Governance <- OneEvent
  Lockstep = FALSE
  Faults = {"clock_step_back", "crash", "handler", "observer"}
  MaxClock = 2
  MaxRestarts = 1
SPECIFICATION Spec
SYMMETRY Symmetry
CHECK_DEADLOCK FALSE
INVARIANTS TypeOK OneRoot OutcomeMatchesStore
PROPERTIES HeadAdvances
