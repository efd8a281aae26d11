\* Two connections, one client patient, the other free to stop reading.
SPECIFICATION FairSpec
CONSTANTS
  c1 = c1
  c2 = c2
  NoFlag = NoFlag
  Conns = {c1, c2}
  Endpoints <- SealEndpoints
  Memories <- TwoMemories
  Layouts <- SmallLayouts
  Flag <- Flags
  Policy <- Policies
  Adus <- LiveAdus
  Packets <- LivePackets
  Malformed = {}
  Value = {0, 1}
  InCap = 1
  OutCap = 1
  Patient = {c1}
PROPERTIES PatientServed GoroutineEnds
