SPECIFICATION FairSpec

CONSTANTS
  Workers = 2
  MaxLinkAttempts = 2
  Payloads <- MCPayloads
  PaidUnseen = TRUE
  OrderAtOnce = FALSE
  MaxLinks = 2
  MaxWebhooks = 2
  MaxCrashes = 1
  MaxEvents = 3
  CreateOperation = "payment_links.create"
  None = None

CHECK_DEADLOCK FALSE

INVARIANTS
  TypeOK
  PaidIsCollected
  LinksAreAccountedFor
  EventsAreObservedOnce
PROPERTIES
  WebhooksSettle
