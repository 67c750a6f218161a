\* Runs that follow one another and may fail or die at any step.
CONSTANTS
  Torn = Torn
  a1 = a1  a2 = a2  r1 = r1  r2 = r2  d1 = d1  d2 = d2
  Agents = {a1, a2}
  Runs = {r1, r2}
  Dates = {d1, d2}
  Overlap = FALSE
  MaxAttempts = 3
  MaxHead = 2
  Faults = {"crash", "git", "push"}
SPECIFICATION FairSpec
CHECK_DEADLOCK FALSE
INVARIANTS AnchorTypeOK SuccessIsAnchored PublishedIsTrue TagOnBranch
PROPERTIES TagAdvances RunEnds
