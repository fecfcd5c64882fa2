SPECIFICATION FairSpec
CONSTANTS
  w1 = w1
  w2 = w2
  r1 = r1
  s1 = s1
  s2 = s2
  Dup = Dup
  NoThread = NoThread
  Workers = {w1, w2}
  Renderers = {r1}
  Stoppers = {s1, s2}
  MaxDraws = 2
  MaxImages = 1
INVARIANT FramesWhole
PROPERTY StableDuringDup
PROPERTY EndedIsShown
PROPERTY CallersReturn
