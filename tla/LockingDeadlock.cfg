CONSTANTS
  c1 = c1
  c2 = c2
  c3 = c3
  Callers = {t1, t2}
  Writers = {w1, w2}
  Corpora = {c1}
  Kinds <- UpdateAndInfo
  NodesSize <- MCNodesSize
  FullSize <- MCFullSize
  Limit <- MCLimit
  MaxCalls = 2
  None = None
SPECIFICATION Spec
INVARIANTS
  NoCircularWait
