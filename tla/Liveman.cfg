SPECIFICATION FairSpec
CONSTANTS
  Node <- MCNode
  Configs <- MCConfigs
  Unlimited = 9
  MaxRecord = 2
INVARIANT SessionRouted
INVARIANT OnePublisher
INVARIANT LimitHonoured
INVARIANT PanicsOnlyShaken
INVARIANT PushCascadeFed
INVARIANT RecordNeverLost
PROPERTY CatalogueComplete
PROPERTY IdleCascadeClosed
\* Requests and recordings are bounded.
CHECK_DEADLOCK FALSE
