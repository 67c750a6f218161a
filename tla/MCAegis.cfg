\* The Aegis adapter registered after the Lattice adapter, as its comment asks for.
CONSTANTS
  Deployments <- LatticeThenAegis
  CustomSections <- SomeSections
  CallerSections <- Filled
  Subjects <- BothEvents
  MaxAttempts = 1
SPECIFICATION Spec
CHECK_DEADLOCK FALSE
INVARIANTS AegisKeepsLattice
