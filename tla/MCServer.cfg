SPECIFICATION MCSpec
CONSTANTS
  w1 = w1
  w2 = w2
  m1 = m1
  m2 = m2
  b1 = b1
  t1 = t1
  t2 = t2
  r1 = r1
  r2 = r2
  o1 = o1
  ApiTask = {w1, w2}
  ApiMix <- MCApiMix
  PerMinute = 2
  DailyCap = 2
  TickSeconds = 25
  SecondParts = 2
  DayTicks = 3
  MaxClock = 3
  Emitter = {m1, m2}
  Outbox <- MCOutbox
  Subscriber = {b1}
  ChannelCapacity = 1
  FirstVfs <- MCFirstVfs
  MaxVfsErrors = 1
  ThumbFile <- MCThumbFile
  ThumbCaller = {t1, t2}
  ThumbRequest <- MCThumbRequest
  ThumbPlatform = {"linux", "macos"}
  FirstFiles <- MCFirstFiles
  CachedSize = 1
  MaxConcurrent = 2
  MaxThumbCalls = 2
  MaxThumbEvents = 1
  TierClient = {r1, r2}
  TierSource <- MCTierSource
  TierKey = {"k", "m"}
  TierPaths <- MCTierPaths
  MaxTierCalls = 2
  MaxTierTrouble = 1
  Looker = {o1}
  LookRequest <- MCLookRequest
  LookTree <- MCLookTree
  LookAge <- MCLookAge
  LookCached <- MCLookCached
  LookSpare <- MCLookSpare
  LookBarred <- MCLookBarred
  LookDepth = 2
  MaxLooks = 1
  MaxLookChanges = 2
INVARIANTS ApiSafe EventsSafe ThumbnailsSafe TieringSafe AnswersWhole
CHECK_DEADLOCK FALSE
