INIT Init
NEXT Next
CONSTANTS
  default = default
  cursor = cursor
  extra = extra
  Layers = {default, cursor, extra}
  DefaultLayer = default
  CursorLayer = cursor
  ExtraLayer = extra
  Unpainted = Unpainted
  CellSize = 2
  CombinedSize = 4
  BaseCost = 4
  DataFactor = 4
  NegligibleSize = 2
  NegligibleIncrease = 4
  IndexSize = 7
  ResizeFactor = 2
  Canvas <- MCCanvas
  Colours <- MCColours
  Scripts <- MCScripts
  GUACENC_DISPLAY_MAX_LAYERS = 4
  GUACENC_DISPLAY_MAX_BUFFERS = 2
  GUACENC_DISPLAY_MAX_STREAMS = 2
  GUACENC_IMAGE_STREAM_INITIAL_LENGTH = 1
  GUACENC_VIDEO_FRAMERATE = 25
  VideoWidth = 4
  VideoHeight = 3
  MaxShade = 4
  Images <- MCImages
  Recordings <- MCRecordings
  GUACLOG_MAX_KEYS = 256
  Keysyms = {97, 233, 16779263, 16785580, 16905728, 65289, 65293, 65505, 65507, 65513}
  MaxKeys = 5
INVARIANT PictureSound
INVARIANT VideoSound
INVARIANT TimelineKept
INVARIANT KeysKept
