\* Every way an emit can end, without restarts.
CONSTANTS
  e1 = e1  e2 = e2  e3 = e3  a1 = a1  a2 = a2
  Emits = {e1, e2, e3}
  Agents = {a1}
  Versions = {1, 2}
  Governance <- AllKinds
  Lockstep = TRUE
  Faults = {"store", "handler"}
  MaxClock = 1
  MaxRestarts = 0
SPECIFICATION FairSpec
CHECK_DEADLOCK FALSE
PROPERTIES EmitSettles
