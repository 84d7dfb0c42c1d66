SPECIFICATION Spec
CONSTANTS
  none = none  red = red  blue = blue  aboutUs = aboutUs
  u1 = u1  u2 = u2  u3 = u3  ftp = ftp  broken = broken  w1 = w1  w2 = w2  w3 = w3
  Absent = Absent  Sentinel = Sentinel  NoBrief = NoBrief  NoIdentity = NoIdentity
  Spanish = Spanish  NoSize = NoSize  NoNumber = NoNumber  Infinite = Infinite  Pending = Pending  Odd = Odd
  ListCap = 1
  Signals = {"resources_count"}
  HexIn <- MCHexIn
  Http <- MCHttp
  Mentions <- MCMentions
  Diverging <- MCDiverging
  Web <- MCWeb
  Suffixed <- MCSuffixed
  Malformed = {broken}
  PersonSignals <- MCPersonSignals
  MaxGalleryItems = 2
  MaxSize = 2
  PageSize = 3
  MaxQuantity = 3
INVARIANTS CopiesAgree MergeKeepsAll GalleryAccounted ShortlistBest LossesNamed EditKnowsItsPost SecondPassFaithful SplitComplete
CHECK_DEADLOCK FALSE
