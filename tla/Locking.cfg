CONSTANTS
  c1 = c1
  c2 = c2
  c3 = c3
  Callers = {t1, t2}
  Writers = {w1, w2, w3}
  Corpora = {c1, c2, c3}
  Kinds <- MCKinds
  NodesSize <- MCNodesSize
  FullSize <- MCFullSize
  Limit <- MCLimit
  MaxCalls = 3
  None = None
SPECIFICATION FairSpec
INVARIANTS
  TypeOK
  LoadedWhileUsed
  OneAtATime
  OthersFit
PROPERTIES
  InfoSeesNoChange
  NoNeedlessUnload
  AllReturn
CHECK_DEADLOCK FALSE
