SPECIFICATION FairSpec
CONSTANTS
  Tunnels = {t1, t2}
  t1 = t1
  t2 = t2
  PREFIX = 1
  BACKLOG = 1
  DEFAULT_MTU = 1500
  Configs <- MCDefaultMtu
PROPERTY ProxyDeathNoticed
CHECK_DEADLOCK FALSE
