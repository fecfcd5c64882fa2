SPECIFICATION FairSpec
CONSTANTS
  w1 = w1
  r1 = r1
  s1 = s1
  Dup = Dup
  NoThread = NoThread
  Workers = {w1}
  Renderers = {r1}
  Stoppers = {s1}
  MaxDraws = 2
  MaxImages = 1
PROPERTY DupReturns
