SPECIFICATION MCSpec
CONSTANTS
  v1 = v1
  v2 = v2
  a1 = a1
  a2 = a2
  p1 = p1
  p2 = p2
  Viewer = {v1, v2}
  Mounted = {"m"}
  Remote = {"r"}
  ViewRequest <- MCViewRequest
  ToolSets <- MCToolSets
  MaxTrans = 2
  MaxEdits = 1
  MaxStops = 1
  Updates = 1
  Caller = {a1, a2}
  AiModel <- MCAiModel
  Contains <- MCContains
  AiRequest <- MCAiRequest
  AiPlatforms = {"macos", "windows", "linux"}
  MaxAiCalls = 3
  MaxWaits = 1
  MaxLines = 1
  MediaClient = {p1, p2}
  MediaRequest <- MCMediaRequest
  FileKind <- MCFileKind
  RemoteFiles = {"r"}
  Analyses <- MCAnalyses
  Vision <- MCVision
  MaxMediaCalls = 2
  MaxTrouble = 1
INVARIANTS TranscriptsWhole SetupSafe DoneIsThere
PROPERTIES SettledStaysSettled OverStaysOver PullOkMeansStored EverythingSettles
CHECK_DEADLOCK FALSE
