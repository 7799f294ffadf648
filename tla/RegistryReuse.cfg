SPECIFICATION Spec
CONSTANTS
  Conns = {c1, c2}
  Ports = {p1, p2}
  LocalIP = "local"
  WireIPs = {"local", "wire"}
  Platforms = {"dialer"}
SYMMETRY Symmetry
INVARIANT LiveFlowFound
