SPECIFICATION FairSpec
CONSTANTS
  Handler <- MCHandlers
  Token = {tc, tv}
  Secret = {s1}
  NoEntry = NoEntry
  Char = {"*", a, b}
  Configured <- MCConfigured
  VaultSecret <- MCVault
  Request <- MCRequests
  Databases = 1
  MaxChanges = 1
  MaxFaults = 1
  w1 = w1
  w2 = w2
  tc = tc
  tv = tv
  s1 = s1
  a = a
  b = b
INVARIANTS IInv ConfigKept Refreshed MigrateTarget
PROPERTIES StableForReaders EventuallyAnswered Converges
