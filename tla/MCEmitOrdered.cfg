\* Emits that take equally many turns and a clock that does not go back.
CONSTANTS
  e1 = e1  e2 = e2  e3 = e3  a1 = a1  a2 = a2
  Emits = {e1, e2, e3}
  Agents = {a1, a2}
  Versions = {1, 2}
  Governance <- SomeKinds
  Lockstep = TRUE
  Faults = {"crash", "store", "handler", "observer"}
  MaxClock = 2
  MaxRestarts = 1
SPECIFICATION Spec
SYMMETRY Symmetry
CHECK_DEADLOCK FALSE
INVARIANTS VerifierPasses
PROPERTIES LedgerSpec
