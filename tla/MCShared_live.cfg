SPECIFICATION LiveSpec
CONSTANTS
  t1 = t1
  t2 = t2
  t3 = t3
  a = a
  Threads = {t1, t2, t3}
  NoThread = NoThread
  Item = {a}
  NoItem = NoItem
  NoCall = NoCall
  max_items = 1
  MaxDepth = 2
  NestedWait = FALSE
  MaxDrawn = 2
  MaxMoves = 1
  MaxMarked = 2
  MaxDuration = 1
  Renderer = Renderer
  h1 = h1
  Handles = {h1}
  INT_MAX = 31
  InitialSize = 2
  Limit = 2
  Kinds = {"buffer"}
PROPERTY SleepersReturn
INVARIANT RenderSound
PROPERTY RenderProgress
