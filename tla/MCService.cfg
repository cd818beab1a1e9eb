SPECIFICATION MCSpec
CONSTANTS
  r1 = r1
  r2 = r2
  n1 = n1
  n2 = n2
  t1 = t1
  t2 = t2
  m1 = m1
  m2 = m2
  a1 = a1
  a2 = a2
  a3 = a3
  RegClient = {r1, r2}
  RegRequest <- MCRegRequest
  TokenOf <- MCTokenOf
  MaxRegCalls = 4
  MaxCrashes = 1
  CacheClient = {n1, n2}
  FileSize <- MCFileSize
  CacheConfigs <- MCCacheConfigs
  CacheRequest <- MCCacheRequest
  MaxCacheCalls = 3
  MaxChanges = 1
  TokenClient = {t1, t2}
  FREE_TIER_TOKENS = 2
  ProTokens = 3
  TokenRequest <- MCTokenRequest
  Period = 1
  MaxTokenCalls = 3
  MaxTime = 1
  BatchDisk <- MCBatchDisk
  BatchItems <- MCBatchItems
  BasePath <- MCBasePath
  MaxVanish = 1
  MaxRequests = 3
  MetaClient = {m1, m2}
  MetaRequest <- MCMetaRequest
  MaxMetaCalls = 3
  AuditTask = {a1, a2}
  Unfinished = {a2}
  LegacyEntries <- MCLegacy
  MaxAuditTrouble = 2
  LogThread = {l1, l2}
  MaxFileSize = 1
  MaxFiles = 1
  ReadFiles = 2
  Limit = 2
  MaxLines = 4
  MaxLogTrouble = 1
  SettingsClient = {s1, s2}
  DefaultSettings <- MCDefaultSettings
  EarlierSettings <- MCEarlierSettings
  SettingsUpdate <- MCSettingsUpdate
  MaxSettingsCalls = 3
  MaxSettingsTrouble = 3
INVARIANTS RegistrySafe CacheSafe AccountSafe BatchSafe MetadataSafe AuditKept SettingsKept EachOnce
CHECK_DEADLOCK FALSE
