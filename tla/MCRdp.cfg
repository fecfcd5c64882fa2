SPECIFICATION Spec
CONSTANTS
  Keymap <- MCKeymap
  Decomposed <- MCDecomposed
  Codepoints = {"aacute", "egrave"}
  KeyInputs = {"LSHIFT", "RSHIFT", "LCTRL", "LALT", "ALTGR", "CAPS_LOCK", "a", "A", "@", "aacute", "egrave"}
  MaxHeld = 3
  MaxTouches = 2
  TouchIds = {1, 2, 3}
  QueueSize = 2
  MaxInputs = 3
  Sizes <- MCSizes
  MaxSizes = 3
  MaxDefinitions = 4
  MaxKeysyms = 1024
  MaxJobs = 2
  MaxChunks = 3
  PipeSize = 1
  StreamFormats <- MCStreamFormats
  ServerFormats <- MCServerFormats
  PacketFrames = {2}
  BlobSizes = {2}
  GUAC_RDP_AUDIO_BUFFER_MIN_DURATION = 1000
  MaxAudioStreams = 2
  MaxAudioBlobs = 3
  MaxOpens = 2
CHECK_DEADLOCK FALSE
INVARIANT KeyboardSound
INVARIANT EventsSound
INVARIANT ChannelsSound
PROPERTY RdpProgress
