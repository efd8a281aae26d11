\* One connection at a time, every kind of message, answers in order.
SPECIFICATION Spec
CONSTANTS
  c1 = c1
  c2 = c2
  NoFlag = NoFlag
  Conns = {c1}
  Endpoints <- AllEndpoints
  Memories <- TwoMemories
  Layouts <- SmallLayouts
  Flag <- Flags
  Policy <- Policies
  Adus <- AllAdus
  Packets <- AllPackets
  Malformed <- Malformations
  Value = {0, 1}
  InCap = 1
  OutCap = 1
  Patient = {}
INVARIANTS TypeOK AnswersMatch
PROPERTIES ChangesAreAuthorized CallsAreWhole HandlersGetOn
