\* Adapters that take unequally many turns: emits overtake each other.
CONSTANTS
  e1 = e1  e2 = e2  e3 = e3  a1 = a1  a2 = a2
  Emits = {e1, e2, e3}
  Agents = {a1}
  Versions = {2}
  Governance <- OneEvent
  Lockstep = FALSE
  Faults = {}
  MaxClock = 2
  MaxRestarts = 0
SPECIFICATION Spec
SYMMETRY Symmetry
CHECK_DEADLOCK FALSE
INVARIANTS NoFork
