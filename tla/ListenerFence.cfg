SPECIFICATION Spec
CONSTANTS
  Workers = {w1, w2}
  Packets = {p1, p2}
  MaxGen = 3
  None = None
SYMMETRY Symmetry
INVARIANTS
  SenderIsExcluded
  OneOwnerPerPacket
CHECK_DEADLOCK FALSE
