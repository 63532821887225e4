\* Two sweeps overlap over a batch that holds an entry the bus rejects.
SPECIFICATION FairSpec
CONSTANTS
  fine = fine
  oversized = oversized
  Jobs = {fine, oversized}
  Undeliverable = {oversized}
  Sweepers = {s1, s2}
  BatchLimit = 2
  MaxEntries = 2
  MaxRetries = 1
  MaxTroubles = 1
  None = None
INVARIANTS
  TypeOK
  PublicationsAreHonest
PROPERTIES
  EntriesArePublished
  JobsAreWoken
CHECK_DEADLOCK FALSE
