SPECIFICATION FairSpec
CONSTANTS
  Word = 16
  MaxColumns = 4
  WideGlyphs = {"wide"}
  MaxRows = 4
  MaxScrollback = 8
  TabInterval = 2
  MaxTabs = 1
  PipeBuffer = 1
  DragSteps = 2
  MaxArgs = 2
  UninitWidths = {0, 1, 2}
  Scenarios <- MCScenarios
  Size <- MCSize
  MaxStdin = 1
CHECK_DEADLOCK FALSE
INVARIANT ScreenCurrent
PROPERTY TextKept
INVARIANT HighlightIsClipboard
PROPERTY OutputDelivered
