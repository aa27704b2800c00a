SPECIFICATION FairSpec
CONSTANTS
  p1 = p1
  p2 = p2
  s1 = s1
  s2 = s2
  None = None
  Publisher <- Publishers
  Subscriber <- Subscribers
  Cascade <- Cascades
  AutoDeletePub = TRUE
  AutoDeleteSub = TRUE
  CascadePushCloseSub = TRUE
  MaxRequests = 2
INVARIANT TypeOK
INVARIANT GaugesBalance
INVARIANT EventsMatchSessions
INVARIANT EstablishedNotIdle
INVARIANT CascadeReleased
PROPERTY SlotSpec
PROPERTY FailedPublisherLeaves
PROPERTY FailedSubscriberLeaves
\* Every request has been served and every connection is closed.
CHECK_DEADLOCK FALSE
