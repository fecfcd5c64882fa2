SPECIFICATION MCSpec
CONSTANTS
  t1 = t1
  t2 = t2
  t3 = t3
  a = a
  b = b
  Threads = {t1, t2, t3}
  NoThread = NoThread
  Item = {a, b}
  NoItem = NoItem
  NoCall = NoCall
  max_items = 2
  MaxDepth = 2
  NestedWait = FALSE
  h1 = h1
  h2 = h2
  h3 = h3
  Handles = {h1, h2, h3}
  INT_MAX = 31
  InitialSize = 2
  Limit = 2
  Kinds = {"buffer", "client_stream", "user_stream", "object"}
  MaxDrawn = 1
  MaxMoves = 1
  MaxMarked = 1
  MaxDuration = 1
  Renderer = Renderer
SYMMETRY Symmetry
INVARIANT FifoSound
PROPERTY ImplementsBoundedQueue
INVARIANT IndicesSound
INVARIANT NoneLost
