\* Two connections to a sealed memory whose flag is set and cleared, or to
\* the memory with the same unit id on another port.
SPECIFICATION Spec
CONSTANTS
  c1 = c1
  c2 = c2
  NoFlag = NoFlag
  Conns = {c1, c2}
  Endpoints <- TwoPorts
  Memories <- TwoMemories
  Layouts <- SmallLayouts
  Flag <- Flags
  Policy <- Policies
  Adus <- SealAdus
  Packets <- SealPackets
  Malformed = {}
  Value = {0, 1}
  InCap = 1
  OutCap = 1
  Patient = {}
SYMMETRY Symmetry
INVARIANT BusyUntilIngest
PROPERTIES IngestUnseals KeepsContract
