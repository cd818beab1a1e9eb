SPECIFICATION MCSpec
CONSTANTS
  c1 = c1
  c2 = c2
  u1 = u1
  u2 = u2
  StorePath <- MCStorePath
  StorePair <- MCStorePair
  TempName = {"t.part"}
  StoreByte = {3}
  InitialBucket <- MCBucket
  MountPath <- MCMountPath
  MountTree <- MCMountTree
  CopyLimit = 2
  MaxMountCalls = 1
  Client = {c1, c2}
  Adapter <- MCAdapter
  Request <- MCRequest
  FirstTrees <- MCTrees
  ClipUser = {u1, u2}
  ClipRequest <- MCClipRequest
  FirstClipTrees <- MCClipTrees
  TempDir <- MCTempDir
  NameLimit = 2
  OsPaths <- MCOsPaths
  MaxClipCalls = 3
INVARIANTS ObjectStoreSafe CommandsSafe ClipboardSafe
PROPERTIES CopiesSafe CutKeepsData
CHECK_DEADLOCK FALSE
