\* The mailbox is read while two tabs decide on two messages of one thread.
SPECIFICATION Spec
CONSTANTS
  Projects = {p1, p2}
  Messages = {m1, m2}
  Threads = {th}
  ThreadOf <- OneThread
  Tabs = {t1, t2}
  Sync = sync
  MaxDecisions = 2
  MaxRequests = 2
  MaxOpen = 2
  None = None
SYMMETRY Symmetry
INVARIANTS
  NothingFallsBetween
  ThreadsStayTogether
  RequestsKeepToTheirProject
PROPERTIES
  RoutedMailStaysPut
CHECK_DEADLOCK FALSE
