SPECIFICATION FairSpec
CONSTANTS
  Env = {e1, e2}
  Gateway = {e1}
  Thread = {t1}
  NoThread = NoThread
INVARIANTS
  NothingForgotten
  ReleasedMeansGone
  OnlyIntentsOutliveWatcher
PROPERTIES
  CustodyKept
  LostOwnerReleases
