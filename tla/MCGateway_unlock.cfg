\* A Modbus request between its sealing check and its dispatch, while ingest clears the flag.
SPECIFICATION Spec
CONSTANTS
  c1 = c1
  c2 = c2
  NoFlag = NoFlag
  Conns = {c1, c2}
  Endpoints <- SealEndpoints
  Memories <- TwoMemories
  Layouts <- SmallLayouts
  Flag <- Flags
  Policy <- Policies
  Adus <- SealAdus
  Packets <- SealPackets
  Malformed = {}
  Value = {0, 1}
  InCap = 1
  OutCap = 1
  Patient = {}
PROPERTY ModbusNeverUnseals
