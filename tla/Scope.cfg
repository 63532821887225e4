\* Two tabs use three keys on the project, one more row and two candidates.
SPECIFICATION Spec
CONSTANTS
  Tabs = {t1, t2}
  Keys = {k1, k2, k3}
  Project = project
  Rows = {project, client}
  Candidates = {c1, c2}
  MaxAmendments = 1
  None = None
SYMMETRY Symmetry
INVARIANTS
  CommandsTakeEffectOnce
  EditsBuildOnEachOther
  NewestScopeIsCurrent
  CandidatesHaveTheirSource
PROPERTIES
  ScopeVersionsAreImmutable
CHECK_DEADLOCK FALSE
