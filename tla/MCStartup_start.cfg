\* Every configuration, two listeners, restarts with another configuration.
SPECIFICATION FairSpec
CONSTANTS
  Configs <- AllConfigs
  Gates <- TwoGates
INVARIANTS TypeOK ServesConfiguration EstablishesGateway ValidatedBuilds EveryMemoryReachable
PROPERTIES UpUntilKilled StartsOrDies AcceptsAgain
