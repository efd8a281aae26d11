\* A Modbus client whose first transaction id reads 'R','I'.
SPECIFICATION Spec
CONSTANTS
  c1 = c1
  c2 = c2
  NoFlag = NoFlag
  Conns = {c1}
  Endpoints <- AllEndpoints
  Memories <- TwoMemories
  Layouts <- SmallLayouts
  Flag <- Flags
  Policy <- Policies
  Adus <- AllAdus
  Packets <- AllPackets
  Malformed = {}
  Value = {0, 1}
  InCap = 1
  OutCap = 1
  Patient = {}
INVARIANT ModbusStaysModbus
