SPECIFICATION FairSpec
CONSTANTS
  Tunnels = {t1, t2}
  t1 = t1
  t2 = t2
  PREFIX = 2
  BACKLOG = 1
  DEFAULT_MTU = 1500
  Configs <- MCConfigs
INVARIANTS TypeOK ConfigTrue StreamAligned
CHECK_DEADLOCK FALSE
PROPERTIES ConnectReturns NoOrphan EofNoticed
