INIT Init
NEXT Next
CHECK_DEADLOCK FALSE
CONSTANTS
  b1 = b1
  u1 = u1
  u2 = u2
  WideText = {"wide"}
  ProtocolVersion = "VERSION_1_5_0"
  BlobMax = 6
  ReadyMax = 3
  Connections <- TestConnections
  BufferSize = 56
  MaxElements = 11
  MaxLength = 20
  ReadSizes = {1, 11, 40}
  Payloads <- TestPayloads
  ShiftSize = 8
  Users = {u1, u2}
  Broadcasters = {b1}
  KeepAlive = KeepAlive
  Recorder = Recorder
  Nobody = Nobody
  Parts = 2
  BufferParts = 2
  Turns <- TestTurns
  Breakable = {u1}
  People = {u1, u2}
  MaxStreams = 1
  Arguments = {"color", "secret"}
  Once = {"secret"}
  Echo = {"color"}
  Awaited = {"secret"}
  Accepted = {"argv", "put"}
  Data = {"x", "y"}
  MaxValue = 1
  MaxRegistered = 2
  RefusedValues <- MCRefused
  MaxHandled = 4
  INT_MAX = 31
  GUAC_RDP_FS_MAX_FILES = 2
  GUAC_RDP_MAX_PATH_DEPTH = 2
  PathInputs <- MCPathInputs
  CreateInputs <- MCCreateInputs
  UploadNames = {"a_b"}
  InitialDrives <- MCInitialDrives
  MaxData = 2
  MaxTransfers = 2
  JsonSize = 1
  MaxOps = 2
  ClipSettings <- MCClipSettings
  PasteBlobs <- MCPasteBlobs
  CopyTexts <- MCCopyTexts
  GUAC_COMMON_CLIPBOARD_MAX_LENGTH = 8
  GUAC_COMMON_CLIPBOARD_BLOCK_SIZE = 3
  MaxTexts = 2
INVARIANT ParserSound
INVARIANT SocketsSound
INVARIANT StreamsSound
PROPERTY DriveSound
