\* Three framings, two frames, a stream that pauses or ends anywhere.
SPECIFICATION FairSpec
CONSTANTS
  Frames <- AllFrames
  Pauses <- Some
  MaxFrames = 2
  MaxTaken = 3
  MaxPacketBytes = 8206
INVARIANTS TypeOK InStep NothingUnasked OnePerPacket ClientInStep
PROPERTIES TakesWhatWasSent Answered
\* One connection is modelled: when both sides have closed, all is over.
CHECK_DEADLOCK FALSE
