SPECIFICATION ServingSpec
CONSTANTS
  Notes = {1, 2}
  Window <- SomeWindows
  NoDate = NoDate
  Drafts = {1, 2, 3}
  Callers = {c1, c2}
  c1 = c1
  c2 = c2
  Within = 1
  MaxDrafts = 1
  LimitPerCategory = 1
  Horizon = 1
  MaxIncidents = 1
  Served = {n1}
  n1 = n1
  Hosting = {p1, p2}
  p1 = p1
  p2 = p2
  Calls = {s1, s2}
  s1 = s1
  s2 = s2
  Sizes = {model, fallback}
  model = model
  fallback = fallback
  None = None
  MaxVectorFaults = 1
INVARIANTS
  ServingTypeOK DuplicatesAreFew SummaryCountsCandidates SupersededIsLeftOut MissedHasCause
  HardIndexNeedsCollection
PROPERTIES StaleNotesAreDrafted DegradationEnds
CHECK_DEADLOCK FALSE
