\* Three blocks of two options of a pool of any type, indexed by runs that fail at any call.
CONSTANTS
  PRECISION = 1
  MaxU256 = 1
  NoOne = nobody
  NULL = nobody
  u1 = u1
  u2 = u2
  Users = {u1, u2}
  PoolTypes = {0, 1, 2}
  MaxHeight = 3
  MaxIds = 2
  Tracked = {"pool"}
  SwapContracts = {"token"}
  DefaultGrace = 144
  GracePeriod = 10
  r1 = r1
  r2 = r2
  Runs = {r1}
  MaxBlocksPerRun = 2
  Faults = {"abort", "grace", "behind", "unresolved", "nullBlock"}
  MaxFaults = 1
SPECIFICATION FairSpec
INVARIANT NeverInvents
PROPERTIES ShowsPrefixes CatchesUp
