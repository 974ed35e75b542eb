SPECIFICATION Spec
CONSTANTS
  d1 = d1  d2 = d2  d3 = d3  t1 = t1  t2 = t2  s1 = s1  s2 = s2  b1 = b1  b2 = b2
  None = None
  Workers = {w1}
  Replayers = {w1}
  Drafts = {d1, d3}
  Titles = {t1, t2}
  Scopes = {s1, s2}
  Bodies = {b1, b2}
  TargetPaths = {}
  AsCurrent = {TRUE, FALSE}
  Stores <- WithLexical
  ReplayLimit = 2
  MaxPromotions = 3
  MaxRedrafts = 0
  MaxCrashes = 1
  MaxFaults = 1
  TitleOf <- MCTitleOf
  ScopeOf <- MCScopeOf
  FirstBody <- MCFirstBody
INVARIANTS
  SettledNotesAgree
  LaterPromotionWins
  NoLiveTwins
  SnapshotDescribesCurrent
  TornFileIsReplayable
PROPERTIES
  CompletedIsFinal
