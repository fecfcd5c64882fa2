SPECIFICATION Spec
CONSTANTS
  Builds <- MCBuilds
  Displays <- MCDisplays
  Guests = {"guest"}
  Configs <- MCConfigs
  MaxTyped = 1
  MaxTokens = 4
  MaxLine = 3
  MaxMessages = 5
  MaxWaiting = 2
  Visitors = {"guest"}
  Setups <- MCSetups
  MaxConnections = 2
  FileLines <- MCFileLines
  MaxFile = 4
  AclFiles <- MCAclFiles
  MaxRules = 2
  Typists = {"owner", "guest"}
  KeysOf <- MCKeysOf
  GuacUser = "guac"
  ConnectionId = "$id"
  Host = "host"
  SshUser = "root"
  Chars = {"a", " "}
  Completions <- MCCompletions
  Openings <- MCOpenings
  Infixes <- MCInfixes
  Dangerous <- MCDangerous
  MaxCommand = 3
  MaxLogged = 2
  MaxKeys = 4
  ServerTree <- MCServerTree
  Home <- MCHome
  Filesystems <- MCFilesystems
  ObjectNames <- MCObjectNames
  FileNames = {"f", "..", "a/b"}
  TerminalPaths <- MCTerminalPaths
  GUAC_COMMON_SSH_SFTP_MAX_DEPTH = 2
  JsonRoom = 3
  MaxSftpTransfers = 2
  MaxBlobs = 2
CHECK_DEADLOCK FALSE
PROPERTY SettingsSound
INVARIANT TextSound
INVARIANT GraphicalSound
INVARIANT CommandsSound
PROPERTY SessionsEnd
