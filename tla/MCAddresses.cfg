SPECIFICATION Spec
CONSTANTS
  t1 = t1
  t2 = t2
  Tunnels = {t1, t2}
  OctetBits = 2
  V4Octets = 1
  V6Octets = 2
  Taps <- MCTaps
  Ips <- MCIps
  PrefixLens = {1, 2}
  IFACE_MAX_ADDR_COUNT = 2
  PORTS = 3
  EPHEMERAL_PORT_START = 2
  UdpPorts = {0, 1}
  MaxOps = 3
INVARIANTS TypeOK AddressesTrue ClientNextToTap SubnetTrue
SYMMETRY TunnelSymmetry
CHECK_DEADLOCK FALSE
