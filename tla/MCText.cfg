CONSTANTS
  SChars <- MCSChars SMax = 4 STRA_CAP = 2
  CfLines <- MCCfLines CfMax = 4
  NChars <- MCNChars NMax = 4 NBits = 13 KBits = 2 BBits = 1 NOctets = {0, 9, 128, 240, 255}
  Symbols = {0, 1} PatMax = 4 TextMax = 7 HashBits = 4
  XCodes = {10, 27, 48, 57, 92, 97, 102, 120} XMax = 4 PlainBytes = {0, 109, 255} PlainMax = 5
  CHARS_PER_LINE = 4 IdBytes = {0, 173}
  BYTE = 3 PkCaps = {5, 40} PkMax = 3 PkItems <- MCPkItems
  LongBits = 18 ShortBits = 8 DEFAULT_P = 2 DecEnd = 5 HexEnd = 4 EBufs = {5, 8}
  EFlags <- MCEFlags EWidths <- MCEWidths EPrecs <- MCEPrecs EMods <- MCEMods
  EStar <- MCEStar ENums <- MCENums EStrs <- MCEStrs
  GoArgs <- MCGoArgs GoMax = 3 GoModes <- MCGoModes GoLong <- MCGoLong
  ZChunks <- MCZChunks ZCode <- MCZCode ZEnd = "Z" ZSize = 3 ZFeeds = 2
  TCols = {120, 50, 48, 20, 1} TTotals = {0, 7, 40, 150} TIncrs = {0, 1, 13, 40} TUpdates = 4 HKB = 10
  PLines <- MCPLines MsgChars <- MCMsgChars MsgMax = 7 ErrBuf = 7
  RSaved = {0, 1, 2, 3} RExtra = 2 RVersions = 7
  MProcs = {x1, x2} MPaths <- MCMPaths MPATH_MAX = 4
  FRoots <- MCFRoots FStart = 1 FKind <- MCFKind FChildren <- MCFChildren FTarget <- MCFTarget FUp <- MCFUp
  FDev <- MCFDev FNlink <- MCFNlink FOptions <- MCFOptions FCalls = 1
  GlLists <- MCGlLists GlPatterns <- MCGlPatterns GlHome <- MCGlHome GlFlags <- MCGlFlags GlLimits = {0, 1, 2} GlSeeks = 6
  ReNames <- MCReNames ReLists <- MCReLists ReHosts <- MCReHosts ReLiterals = {"1.2.3.4"} ReMasks <- MCReMasks ReChanges = 2
  ABuf = 5 AKey = 2 REKEY_BASE = 3 ALens = {1, 5} AProcs = 2 ACalls = 2 AWidth = 3
SPECIFICATION Spec
INVARIANTS FilesWhole WrittenReadBack TakenApart  NeverTwice
CHECK_DEADLOCK FALSE
