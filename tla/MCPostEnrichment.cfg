CONSTANTS
  u1 = u1  u2 = u2  invented = invented
  Url <- MCUrl
  Channel <- MCChannel
  MaxAssets = 2
  MaxReferences = 1
  MaxPicks = 1
  MaxAttachments = 1
SPECIFICATION MCSpec
INVARIANTS ImagesContained NoImageLost ResourcesInOrder CallCanBeFollowed
CHECK_DEADLOCK FALSE
