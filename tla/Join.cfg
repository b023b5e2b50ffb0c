CONSTANTS
  a = a
  b = b
  c = c
  Nodes = {a, b, c}
  NumLHS = 2
  Matches <- MCMatches
  Self <- MCSelf
  Reflexive = FALSE
  NumTasks = 3
  Workers = {w1, w2}
  MaxResets = 1
  None = None
SPECIFICATION FairSpec
INVARIANTS
  TypeOK
  EndIsComplete
  EachOnce
  NoTaskOutlives
PROPERTIES
  ImplementsIterator
  CallsReturn
