CONSTANTS
  VElems = {1, 2} VMax = 4 VOps = 5
  BElems = {1, 2} BMax = 5
  HArrays <- MCHArrays HValues = {0, 1, 2, 3} HSize = 14 HOps = 4
  BWidth = 3 BBits = 4
  LHeads = {h1, h2} LNodes = {a, b, c} LNull = null
  QSizes = {1, 2, 4} QElems = {1, 2}
  GStrings <- MCGStrings GChars <- MCGChars GKeys <- MCGKeys GMax = 9 GOps = 3
  MINALIGNMENT = 4 SizeofChunk = 6 SizeofPool = 10 MIN_OBJ_SIZE = 4 DefaultUnits = 3
  PoolBlocks = {1, 5} PoolMax = {0, 1, 2} PoolUnits = {0, 2} PoolZones <- MCPoolZones PoolOps = 6
  SYS_ALIGNMENT = 4 SizeofNode = 8 ArenaChunks = {0, 10} ArenaSizes = {1, 4, 9} ArenaOps = 5
  DEFAULT_CHUNK_SIZE = 12
  DfOffs = {0, 4, 8} DfSizes = {4, 8} DfFile = 8 DfCreate = {TRUE, FALSE} DfMaps = 3
  CdbKeys = {1, 2, 3, 4, 5, 6} CdbHash <- MCCdbHash CdbTables = 2 CdbMax = 5
  BVals = {1, 2} BSalts = {1} BHash <- MCBHash BSlots = 3 BN = 1 BE = 1000 NFILT = 1 BJunk = {0, 5} BOps = 3
  XKeys <- MCXKeys XSeeds = {0, 1, 2} XIndex <- MCXIndex XFp <- MCXFp XSlack = 8 XTries = 2 XPage = 64
  Keys = {1, 4, 5} Vals = {a, b} NULL = NULL BagSz = 2 Byte = 4 Salts <- MCSalts Size = 2
  MaxFill = 85 MaxN = 4
  Sz = 3 Value = {a, b} MaxEnq = 6
  MProducers = {p1, p2} MNodes = {a, b, c, d} MNull = null
  TKeys = {1, 2, 5} TVals = {a, b} TRandom = 5 TLogSize = 1 TFillMax = 60
  TAllocFails = {"node", "table"}
SPECIFICATION Spec
INVARIANTS ContainersHold StorageApart MembersFound SpscAnswers TableOK VisitsAll
PROPERTIES DictionarySpec SpscFifo TableIsDictionary
CHECK_DEADLOCK FALSE
