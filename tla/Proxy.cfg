SPECIFICATION FairSpec
CONSTANTS
  Backends = {"nfqueue", "afpacket", "bpf", "windivert", "winsniff"}
  NCases = 2
  MayStick = {"rule"}
INVARIANTS
  TypeOK
  ReturnedClean
  RulesLeftAccountedFor
  AcceptingMeansCapturing
PROPERTIES
  ShutdownCompletes
  LoopEnds
  MatrixFinishes
