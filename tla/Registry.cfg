SPECIFICATION Spec
CONSTANTS
  Conns = {c1, c2, c3}
  Ports = {p1, p2}
  LocalIP = "local"
  WireIPs = {"local", "wire"}
  Platforms = {"dialer", "winsock"}
SYMMETRY Symmetry
INVARIANTS
  TypeOK
  NotHandledAsAnother
  UndisturbedFound
  DoneForgotten
