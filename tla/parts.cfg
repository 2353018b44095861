SPECIFICATION PartsSpec
CONSTANTS
  NULL = NULL  None = None  Nobody = Nobody  NoArg = NoArg  NoObject = NoObject  NoValue = NoValue
  NoSid = NoSid  Absent = Absent
  k1 = k1  k2 = k2  k3 = k3  l1 = l1  l2 = l2
  Key = {k1, k2, k3}  Data <- MCExported  Hash <- MCHash  HashSize = 2
  Libs = {l1, l2}  Configs <- MCConfigs  Exported <- MCExported  MaxRequests = 9
  Block = 6  Align = 2  DataHead = 2  PoolHead = 4  LargeRec = 2  CleanRec = 2  MaxAlloc = 2
  FailedLimit = 0  SlotLimit = 0  Sizes = {1, 2}  MaxBlocks = 3  MaxLarge = 2  MaxCleanup = 1
  n1 = n1  n2 = n2   Name = {n1, n2}  Value = {v1}  Lower <- MCLower
  MaxObjects = 4  MaxSaved = 1
  Page = {g1, g2}  Sid = {s1, s2}  Interval = 1  MaxClock = 3  Modes <- MCModes
  Programs <- AllPrograms  SpawnOptions <- MCSpawnOptions  SpawnFaults <- AllSpawnFaults
  MaxKids = 3
  Proc = {p1}  Requests <- AllRequests  UploadIds = {u1, u2}  BufferSize = 2  MaxNow = 1
  MaxCame = 1
  MaxPieces = 5
  pa = pa  pb = pb  pc = pc  pd = pd  pe = pe  inc = inc
  File = {pa, pb, pc, pd, pe, inc}  CspFiles = {pa, pb, pc, pd, pe}  Unwritable = {pd}
  Projects <- MCProjects  Commands <- MCCommands  MaxRuns = 2  MaxLines = 30
  w1 = w1  w2 = w2   Worker = {w1, w2}  DavRequests <- MCDavRequests
  Methods = {"PUT", "DELETE", "MKCOL", "MOVE", "COPY"}  MinDeleteDepth = 1
  CreateFullPutPath = TRUE  InitialTree <- MCTree  BigContents = {102}  Astray = "astray"
  MaxPath = 3  MaxAsked = 2
  Reader = {r1}  Finds <- MCFinds  ExtMethods = {"PROPFIND", "OPTIONS"}
  PropNames = {"getetag", "source"}
INVARIANTS
  PagesServed PoolResetInTime PoolSound ListSound SessionFiles KidsConfined SpawnTidy
  HmapIsAFunction RequestWhole HeadersWhole  ListingTrue SpcSound
SYMMETRY Alike
CHECK_DEADLOCK FALSE
